---- MODULE Spec2Model ----
(***************************************************************************)
(* Model of telemirror/mirroring.py: the four event handlers of            *)
(* EventHandlers (new message, album, edit, delete) running as cooperative *)
(* asyncio tasks over a shared Identity Store and Relay Client.            *)
(*                                                                         *)
(* A handler runs atomically from one `await` to the next: every action    *)
(* below is either "the event source starts a handler, which runs to its   *)
(* first await" or "a pending relay call returns, and the handler runs on  *)
(* to its next await or to its end".  Store calls are synchronous in the   *)
(* source (no await), so they never separate two steps.                    *)
(***************************************************************************)
EXTENDS Integers, Sequences, FiniteSets, TLC

\* ---------------------------------------------------------------- bounds
\* Number of events the event source delivers in one run.
MaxEvents == 3
\* Largest number of outgoing messages one grouped send may return.
MaxOut == 3

\* ------------------------------------------------------- configuration
\* Source chats the handlers are registered for (configure_mirroring's
\* source_chats).  100 is mirrored to two targets, 101 has no entry in the
\* mapping, 102 is mapped to an empty list.
SourceChats == {100, 101, 102}

\* _mirror_mapping: Dict[int, List[int]]
mirror_mapping == (100 :> <<200, 300>>) @@ (102 :> <<>>)

\* Original message ids the platform uses in a source chat.
MsgIds == {5, 6}

\* Albums the platform delivers: ordered, non-empty, distinct ids.
Albums == {<<5, 6>>}

\* Texts an edit gives a message.
EditTexts == {"edited", "edited again"}

\* deleted_ids lists of a MessageDeleted event.
DeletedIds == {<<5>>, <<5, 6>>}

VARIABLES
    db,        \* Identity Store: sequence of MirrorMessage rows, insert order
    tasks,     \* handler invocations: the events delivered so far, each with
               \* the state of its handler
    next_id,   \* next message id the platform hands out in a target chat
    config     \* what configure_mirroring stored: flags and filter

vars == <<db, tasks, next_id, config>>

\* ----------------------------------------------------------- Identity Store
\* storage.MirrorMessage
MirrorMessage(oid, ochan, mid, mchan) ==
    [original_id |-> oid, original_channel |-> ochan,
     mirror_id |-> mid, mirror_channel |-> mchan]

RECURSIVE SelectRows(_, _, _)
SelectRows(s, oid, ochan) ==
    IF s = <<>> THEN <<>>
    ELSE IF Head(s).original_id = oid /\ Head(s).original_channel = ochan
         THEN <<Head(s)>> \o SelectRows(Tail(s), oid, ochan)
         ELSE SelectRows(Tail(s), oid, ochan)

RECURSIVE RejectRows(_, _, _)
RejectRows(s, oid, ochan) ==
    IF s = <<>> THEN <<>>
    ELSE IF Head(s).original_id = oid /\ Head(s).original_channel = ochan
         THEN RejectRows(Tail(s), oid, ochan)
         ELSE <<Head(s)>> \o RejectRows(Tail(s), oid, ochan)

\* Database.insert: append-only
insert(store, row) == Append(store, row)

\* Database.get_messages: the rows of (original_id, original_channel), in order
get_messages(store, oid, ochan) == SelectRows(store, oid, ochan)

\* Database.delete_messages: removes every row of (original_id, original_channel)
delete_messages(store, oid, ochan) == RejectRows(store, oid, ochan)

\* ------------------------------------------------------------ Content Filter
\* MesssageFilter.process; EmptyMessageFilter is the identity.  The other
\* filter rewrites the text and degrades a poll to a plain text message.
process(m) ==
    IF config.message_filter = "EmptyMessageFilter" THEN m
    ELSE [m EXCEPT !.message = "filtered",
                   !.media = IF @ = "poll" THEN "text" ELSE @]

\* -------------------------------------------------------------- Mirror Router
\* A lookup that falls back to the targets of chat 100 for an unknown chat.
outgoing_chatsM(chat) ==
    IF chat \in DOMAIN mirror_mapping THEN mirror_mapping[chat] ELSE mirror_mapping[100]

\* self._mirror_mapping.get(incoming_chat).  The handlers treat None (no
\* entry) and an empty list alike, so None is the empty list here.
outgoing_chats(chat) ==
    IF chat \in DOMAIN mirror_mapping THEN mirror_mapping[chat] ELSE <<>>

\* not (outgoing_chats is None or len(outgoing_chats) < 1)
HasTargets(chat) == Len(outgoing_chats(chat)) >= 1

\* ------------------------------------------------------------------ messages
\* types.Message, as far as the handlers read it
Message(id, text, media, grouped, hide) ==
    [id |-> id, message |-> text, media |-> media,
     grouped_id |-> grouped, edit_hide |-> hide]

\* One relay call of a handler: op, its arguments and (once returned) result.
\*   res: "pending" | "ok" | "absent" | "fail";  out: the outgoing message ids
Call(op, chat, id, content) ==
    [op |-> op, chat |-> chat, id |-> id, content |-> content,
     res |-> "pending", out |-> <<>>]

\* A handler invocation.  pc is the await it is suspended in, or "done".
Task(kind, chat, msgs, deleted_ids) ==
    [kind |-> kind, chat |-> chat, msgs |-> msgs, deleted_ids |-> deleted_ids,
     pc |-> "done", exit |-> "return",
     i |-> 0, j |-> 0, rows |-> <<>>,
     found |-> <<>>, hist |-> <<>>, ins |-> <<>>, after_delete |-> FALSE]

\* The ids an event is about.
IdsOf(t) == IF t.kind = "delete" THEN {t.deleted_ids[k] : k \in 1..Len(t.deleted_ids)}
            ELSE {t.msgs[k].id : k \in 1..Len(t.msgs)}

Grouped(t) == t.kind = "new" /\ t.msgs[1].grouped_id

\* The last call of `hist` with its result filled in.
Returned(hist, res, out) ==
    [hist EXCEPT ![Len(hist)] = [@ EXCEPT !.res = res, !.out = out]]


Finish(t, how) == [t EXCEPT !.pc = "done", !.exit = how]

\* Some earlier event was about message (chat, id).
Refers(t, chat, id) == t.chat = chat /\ id \in IdsOf(t)

\* The platform announces a message once: a plain message by one NewMessage
\* event, an album member by one grouped NewMessage event and by the Album
\* event; edits and deletions of a message come after its announcement.
FirstEventFor(chat, id) == \A t \in tasks : ~Refers(t, chat, id)

OnlyAlbumFor(chat, id) ==
    \A t \in tasks : Refers(t, chat, id) => t.kind = "album"

OnlyGroupedFor(chat, id) ==
    \A t \in tasks : Refers(t, chat, id) => Grouped(t)

\* ------------------------------------------------------------ on_new_message
\* The poll test made on event.message instead of the filtered message.
IssueSendP(t, k) ==
    LET incoming_message == process(t.msgs[1])
        outgoing_chat == outgoing_chats(t.chat)[k]
        call == IF t.msgs[1].media = "poll"
                THEN Call("send_poll", outgoing_chat, 0, <<incoming_message>>)
                ELSE Call("send_message", outgoing_chat, 0, <<t.msgs[1]>>)
    IN  [t EXCEPT !.pc = "send_message", !.i = k, !.hist = Append(@, call)]

\* The targets taken from the end of the list.
IssueSendM(t, k) ==
    LET incoming_message == process(t.msgs[1])
        outgoing_chat == outgoing_chats(t.chat)[Len(outgoing_chats(t.chat)) + 1 - k]
        call == IF incoming_message.media = "poll"
                THEN Call("send_poll", outgoing_chat, 0, <<incoming_message>>)
                ELSE Call("send_message", outgoing_chat, 0, <<t.msgs[1]>>)
    IN  [t EXCEPT !.pc = "send_message", !.i = k, !.hist = Append(@, call)]

\* The send of lines 36-40 to target number k: the poll path when the
\* filtered message carries a poll, else the generic path, which is handed
\* event.message.
IssueSend(t, k) ==
    LET incoming_message == process(t.msgs[1])
        outgoing_chat == outgoing_chats(t.chat)[k]
        call == IF incoming_message.media = "poll"
                THEN Call("send_poll", outgoing_chat, 0, <<incoming_message>>)
                ELSE Call("send_message", outgoing_chat, 0, <<t.msgs[1]>>)
    IN  [t EXCEPT !.pc = "send_message", !.i = k, !.hist = Append(@, call)]

\* The for loop of line 35 moving on to the next target, or ending.
NextTarget(t) ==
    IF t.i < Len(outgoing_chats(t.chat))
    THEN IssueSend(t, t.i + 1)
    ELSE Finish(t, "return")

\* The handler without the grouped_id test of lines 18-20.
StartNewMessageM(chat, m) ==
    LET t == Task("new", chat, <<m>>, <<>>)
    IN  IF ~HasTargets(chat) THEN Finish(t, "no_targets")
        ELSE IssueSend(t, 1)

\* Lines 18-40: the handler from its start to its first await.
StartNewMessage(chat, m) ==
    LET t == Task("new", chat, <<m>>, <<>>)
    IN  IF m.grouped_id THEN Finish(t, "skip")
        ELSE IF ~HasTargets(chat) THEN Finish(t, "no_targets")
        ELSE IssueSend(t, 1)

OnNewMessage(chat, m) ==
    /\ Cardinality(tasks) < MaxEvents
    /\ IF m.grouped_id THEN OnlyAlbumFor(chat, m.id) ELSE FirstEventFor(chat, m.id)
    /\ tasks' = tasks \cup {StartNewMessage(chat, m)}
    /\ UNCHANGED <<db, next_id, config>>

\* The row written with the source chat in place of the target chat.
NewMessageAfterSendM(t, res) ==
    LET incoming_message == process(t.msgs[1])
        row == MirrorMessage(incoming_message.id, t.chat, next_id, t.chat)
    IN  CASE res = "fail" ->
               [task |-> Finish([t EXCEPT !.hist = Returned(@, "fail", <<>>)], "except"),
                store |-> db, nid |-> next_id]
          [] res = "absent" ->
               [task |-> NextTarget([t EXCEPT !.hist = Returned(@, "absent", <<>>)]),
                store |-> db, nid |-> next_id]
          [] OTHER ->
               [task |-> NextTarget([t EXCEPT !.hist = Returned(@, "ok", <<next_id>>),
                                              !.ins = Append(@, row)]),
                store |-> insert(db, row), nid |-> next_id + 1]

\* Lines 40-48: send_message returns (an outgoing message, None) or raises;
\* the handler inserts the row and goes on to the next target.
NewMessageAfterSend(t, res) ==
    LET incoming_message == process(t.msgs[1])
        outgoing_chat == outgoing_chats(t.chat)[t.i]
        row == MirrorMessage(incoming_message.id, t.chat, next_id, outgoing_chat)
    IN  CASE res = "fail" ->
               [task |-> Finish([t EXCEPT !.hist = Returned(@, "fail", <<>>)], "except"),
                store |-> db, nid |-> next_id]
          [] res = "absent" ->
               [task |-> NextTarget([t EXCEPT !.hist = Returned(@, "absent", <<>>)]),
                store |-> db, nid |-> next_id]
          [] OTHER ->
               [task |-> NextTarget([t EXCEPT !.hist = Returned(@, "ok", <<next_id>>),
                                              !.ins = Append(@, row)]),
                store |-> insert(db, row), nid |-> next_id + 1]

NewMessageSendReturn(t, res) ==
    /\ t.kind = "new" /\ t.pc = "send_message"
    /\ LET r == NewMessageAfterSend(t, res)
       IN  /\ tasks' = (tasks \ {t}) \cup {r.task}
           /\ db' = r.store
           /\ next_id' = r.nid
    /\ UNCHANGED config

\* ------------------------------------------------------------------ on_album
\* The send_file of lines 76-77 to target number k: captions and files are
\* the filtered messages' texts and media, position by position.
IssueSendFile(t, k) ==
    LET filtered == [x \in 1..Len(t.msgs) |-> process(t.msgs[x])]
        call == Call("send_file", outgoing_chats(t.chat)[k], 0, filtered)
    IN  [t EXCEPT !.pc = "send_file", !.i = k, !.hist = Append(@, call)]

NextAlbumTarget(t) ==
    IF t.i < Len(outgoing_chats(t.chat))
    THEN IssueSendFile(t, t.i + 1)
    ELSE Finish(t, "return")

StartAlbum(chat, msgs) ==
    LET t == Task("album", chat, msgs, <<>>)
    IN  IF ~HasTargets(chat) THEN Finish(t, "no_targets")
        ELSE IssueSendFile(t, 1)

OnAlbum(chat, ids) ==
    /\ Cardinality(tasks) < MaxEvents
    /\ \A x \in 1..Len(ids) : OnlyGroupedFor(chat, ids[x])
    /\ tasks' = tasks \cup
          {StartAlbum(chat, [x \in 1..Len(ids) |-> Message(ids[x], "hi", "photo", TRUE, FALSE)])}
    /\ UNCHANGED <<db, next_id, config>>

\* The rows of one target with the source ids taken from the end.
AlbumRowsM(t, k) ==
    LET n == IF k < Len(t.msgs) THEN k ELSE Len(t.msgs)
    IN  [x \in 1..n |->
            MirrorMessage(process(t.msgs[Len(t.msgs) + 1 - x]).id, t.chat, next_id + x - 1,
                          outgoing_chats(t.chat)[t.i])]

\* Lines 79-84: the rows of one target.  enumerate(outgoing_messages) indexes
\* source_message_ids, which has one entry per album message: position
\* Len(msgs)+1 raises IndexError after the rows before it were inserted.
AlbumRows(t, k) ==
    LET n == IF k < Len(t.msgs) THEN k ELSE Len(t.msgs)
    IN  [x \in 1..n |->
            MirrorMessage(process(t.msgs[x]).id, t.chat, next_id + x - 1,
                          outgoing_chats(t.chat)[t.i])]

\* The inserts of lines 80-84, one after the other.
RECURSIVE InsertAll(_, _)
InsertAll(store, rows) ==
    IF rows = <<>> THEN store
    ELSE InsertAll(insert(store, Head(rows)), Tail(rows))

\* The success test written `len(outgoing_messages) >= 1`.
AlbumAfterSendM(t, res, k) ==
    LET out == [x \in 1..k |-> next_id + x - 1]
        rows == IF k >= 1 THEN AlbumRows(t, k) ELSE <<>>
        t1 == [t EXCEPT !.hist = Returned(@, "ok", out), !.ins = @ \o rows]
    IN  CASE res = "fail" ->
               [task |-> Finish([t EXCEPT !.hist = Returned(@, "fail", <<>>)], "except"),
                store |-> db, nid |-> next_id]
          [] res = "absent" ->
               [task |-> NextAlbumTarget([t EXCEPT !.hist = Returned(@, "absent", <<>>)]),
                store |-> db, nid |-> next_id]
          [] OTHER ->
               [task |-> IF k >= 1 /\ k > Len(t.msgs)
                         THEN Finish(t1, "except")
                         ELSE NextAlbumTarget(t1),
                store |-> InsertAll(db, rows), nid |-> next_id + k]

\* Lines 76-86: send_file returns k outgoing messages, None, or raises.
AlbumAfterSend(t, res, k) ==
    LET out == [x \in 1..k |-> next_id + x - 1]
        rows == IF k > 1 THEN AlbumRows(t, k) ELSE <<>>
        t1 == [t EXCEPT !.hist = Returned(@, "ok", out), !.ins = @ \o rows]
    IN  CASE res = "fail" ->
               [task |-> Finish([t EXCEPT !.hist = Returned(@, "fail", <<>>)], "except"),
                store |-> db, nid |-> next_id]
          [] res = "absent" ->
               [task |-> NextAlbumTarget([t EXCEPT !.hist = Returned(@, "absent", <<>>)]),
                store |-> db, nid |-> next_id]
          [] OTHER ->
               [task |-> IF k > 1 /\ k > Len(t.msgs)
                         THEN Finish(t1, "except")
                         ELSE NextAlbumTarget(t1),
                store |-> InsertAll(db, rows), nid |-> next_id + k]

AlbumSendReturn(t, res, k) ==
    /\ t.kind = "album" /\ t.pc = "send_file"
    /\ res = "ok" \/ k = 0
    /\ LET r == AlbumAfterSend(t, res, k)
       IN  /\ tasks' = (tasks \ {t}) \cup {r.task}
           /\ db' = r.store
           /\ next_id' = r.nid
    /\ UNCHANGED config


\* ----------------------------------------------------------- on_edit_message
\* The edit_message of line 111 against mirror row number k.
IssueEdit(t, k) ==
    LET incoming_message == process(t.msgs[1])
        call == Call("edit_message", t.rows[k].mirror_channel, t.rows[k].mirror_id,
                     <<incoming_message>>)
    IN  [t EXCEPT !.pc = "edit_message", !.i = k, !.hist = Append(@, call)]

\* Some delete handler that was given (chat, id) has run to its end.
DeleteProcessed(chat, id) ==
    \E t \in tasks :
        /\ t.kind = "delete" /\ t.pc = "done"
        /\ Refers(t, chat, id)

\* The lookup keyed by the original id alone, whatever the source chat.
StartEditMessageM(chat, m) ==
    LET t == [Task("edit", chat, <<m>>, <<>>) EXCEPT
                 !.after_delete = DeleteProcessed(chat, m.id)]
        outgoing_messages == SelectSeq(db, LAMBDA r : r.original_id = m.id)
    IN  IF m.edit_hide THEN Finish(t, "skip")
        ELSE IF Len(outgoing_messages) < 1 THEN Finish(t, "no_rows")
        ELSE IssueEdit([t EXCEPT !.rows = outgoing_messages, !.found = outgoing_messages], 1)

\* Lines 91-111: the handler from its start to its first await.
StartEditMessage(chat, m) ==
    LET t == [Task("edit", chat, <<m>>, <<>>) EXCEPT
                 !.after_delete = DeleteProcessed(chat, m.id)]
        outgoing_messages == get_messages(db, m.id, chat)
    IN  IF m.edit_hide THEN Finish(t, "skip")
        ELSE IF Len(outgoing_messages) < 1 THEN Finish(t, "no_rows")
        ELSE IssueEdit([t EXCEPT !.rows = outgoing_messages, !.found = outgoing_messages], 1)

\* The edit handler installed under the delete flag.
OnEditMessageM(chat, m) ==
    /\ Cardinality(tasks) < MaxEvents
    /\ ~config.disable_delete
    /\ \A t \in tasks : ~(t.kind = "edit" /\ t.chat = chat /\ t.msgs = <<m>>)
    /\ tasks' = tasks \cup {StartEditMessage(chat, m)}
    /\ UNCHANGED <<db, next_id, config>>

OnEditMessage(chat, m) ==
    /\ Cardinality(tasks) < MaxEvents
    /\ ~config.disable_edit
    /\ \A t \in tasks : ~(t.kind = "edit" /\ t.chat = chat /\ t.msgs = <<m>>)
    /\ tasks' = tasks \cup {StartEditMessage(chat, m)}
    /\ UNCHANGED <<db, next_id, config>>

\* The edit loop outside any try: a failing call leaves the handler raising.
EditAfterCallM(t, res) ==
    LET t1 == [t EXCEPT !.hist = Returned(@, res, <<>>)]
    IN  IF res = "fail" THEN Finish(t1, "raise")
        ELSE IF t.i < Len(t.rows) THEN IssueEdit(t1, t.i + 1)
        ELSE Finish(t1, "return")

\* Lines 110-113: edit_message returns or raises.
EditAfterCall(t, res) ==
    LET t1 == [t EXCEPT !.hist = Returned(@, res, <<>>)]
    IN  IF res = "fail" THEN Finish(t1, "except")
        ELSE IF t.i < Len(t.rows) THEN IssueEdit(t1, t.i + 1)
        ELSE Finish(t1, "return")

EditReturn(t, res) ==
    /\ t.kind = "edit" /\ t.pc = "edit_message"
    /\ tasks' = (tasks \ {t}) \cup {EditAfterCall(t, res)}
    /\ UNCHANGED <<db, next_id, config>>

\* -------------------------------------------------------- on_deleted_message
\* The delete_messages of line 136 against mirror row number k.
IssueDelete(t, k) ==
    LET call == Call("delete_messages", t.rows[k].mirror_channel, t.rows[k].mirror_id, <<>>)
    IN  [t EXCEPT !.pc = "delete_messages", !.i = k, !.hist = Append(@, call)]

\* The outer loop without the store delete of line 132.
RECURSIVE DeleteLoopM(_, _, _)
DeleteLoopM(t, store, j) ==
    IF j > Len(t.deleted_ids)
    THEN [task |-> Finish([t EXCEPT !.j = j], "return"), store |-> store]
    ELSE LET deleting_messages == get_messages(store, t.deleted_ids[j], t.chat)
         IN  IF Len(deleting_messages) < 1
             THEN DeleteLoopM(t, store, j + 1)
             ELSE [task |-> IssueDelete([t EXCEPT !.j = j,
                                                  !.rows = deleting_messages,
                                                  !.found = @ \o deleting_messages], 1),
                   store |-> store]

\* Lines 125-136: the outer loop from deleted id number j on, up to the next
\* await: ids without rows are skipped; for the first id with rows the store
\* rows are removed and the first mirror delete is issued.
RECURSIVE DeleteLoop(_, _, _)
DeleteLoop(t, store, j) ==
    IF j > Len(t.deleted_ids)
    THEN [task |-> Finish([t EXCEPT !.j = j], "return"), store |-> store]
    ELSE LET deleting_messages == get_messages(store, t.deleted_ids[j], t.chat)
         IN  IF Len(deleting_messages) < 1
             THEN DeleteLoop(t, store, j + 1)
             ELSE [task |-> IssueDelete([t EXCEPT !.j = j,
                                                  !.rows = deleting_messages,
                                                  !.found = @ \o deleting_messages], 1),
                   store |-> delete_messages(store, t.deleted_ids[j], t.chat)]

OnDeletedMessage(chat, ids) ==
    /\ Cardinality(tasks) < MaxEvents
    /\ ~config.disable_delete
    /\ \A t \in tasks : ~(t.kind = "delete" /\ t.chat = chat /\ t.deleted_ids = ids)
    /\ LET r == DeleteLoop(Task("delete", chat, <<>>, ids), db, 1)
       IN  /\ tasks' = tasks \cup {r.task}
           /\ db' = r.store
    /\ UNCHANGED <<next_id, config>>

\* The delete call without the inner try of lines 135-138: a failure reaches
\* the handler's outer except.
DeleteAfterCallM(t, res, store) ==
    LET t1 == [t EXCEPT !.hist = Returned(@, res, <<>>)]
    IN  IF res = "fail" THEN [task |-> Finish(t1, "except"), store |-> store]
        ELSE IF t.i < Len(t.rows)
        THEN [task |-> IssueDelete(t1, t.i + 1), store |-> store]
        ELSE DeleteLoop(t1, store, t.j + 1)

\* Lines 134-138: delete_messages returns or raises; the inner try logs the
\* error and the loops go on.
DeleteAfterCall(t, res, store) ==
    LET t1 == [t EXCEPT !.hist = Returned(@, res, <<>>)]
    IN  IF t.i < Len(t.rows)
        THEN [task |-> IssueDelete(t1, t.i + 1), store |-> store]
        ELSE DeleteLoop(t1, store, t.j + 1)

DeleteReturn(t, res) ==
    /\ t.kind = "delete" /\ t.pc = "delete_messages"
    /\ LET r == DeleteAfterCall(t, res, db)
       IN  /\ tasks' = (tasks \ {t}) \cup {r.task}
           /\ db' = r.store
    /\ UNCHANGED <<next_id, config>>

\* ------------------------------------------------------ configure_mirroring
\* Lines 167-188 with the default arguments: the empty filter, edit and
\* delete handling installed.
Init ==
    /\ db = <<>>
    /\ tasks = {}
    /\ next_id = 50
    /\ config = [message_filter |-> "EmptyMessageFilter",
                 disable_edit |-> FALSE, disable_delete |-> FALSE]

\* The events the event source can deliver.  A plain message 5 is a text, a
\* plain message 6 is a poll; album members are photos carrying a grouped id.
NewMessages ==
    {Message(5, "hi", "text", FALSE, FALSE), Message(6, "vote", "poll", FALSE, FALSE)}
    \cup {Message(id, "hi", "photo", TRUE, FALSE) : id \in MsgIds}

\* Message 5 is edited up to twice, message 6 once; a reaction to message 5
\* arrives as a hidden edit.
EditedMessages ==
    {Message(5, text, "text", FALSE, FALSE) : text \in EditTexts}
    \cup {Message(6, "edited", "text", FALSE, FALSE), Message(5, "hi", "text", FALSE, TRUE)}

Next ==
    \/ \E chat \in SourceChats, m \in NewMessages : OnNewMessage(chat, m)
    \/ \E t \in tasks, res \in {"ok", "absent", "fail"} : NewMessageSendReturn(t, res)
    \/ \E chat \in SourceChats, ids \in Albums : OnAlbum(chat, ids)
    \/ \E t \in tasks, res \in {"ok", "absent", "fail"}, k \in 0..MaxOut :
          AlbumSendReturn(t, res, k)
    \/ \E chat \in SourceChats, m \in EditedMessages : OnEditMessage(chat, m)
    \/ \E t \in tasks, res \in {"ok", "fail"} : EditReturn(t, res)
    \/ \E chat \in SourceChats, ids \in DeletedIds : OnDeletedMessage(chat, ids)
    \/ \E t \in tasks, res \in {"ok", "fail"} : DeleteReturn(t, res)

Spec == Init /\ [][Next]_vars

\* Lines 167-188 with any choice of the filter and of the two flags.
Filters == {"EmptyMessageFilter", "DegradingFilter"}

InitConfig ==
    /\ db = <<>>
    /\ tasks = {}
    /\ next_id = 50
    /\ config \in [message_filter : Filters,
                   disable_edit : BOOLEAN, disable_delete : BOOLEAN]

\* The events of the mirrored chat alone.
NextMapped ==
    \/ \E m \in NewMessages : OnNewMessage(100, m)
    \/ \E t \in tasks, res \in {"ok", "absent", "fail"} : NewMessageSendReturn(t, res)
    \/ \E ids \in Albums : OnAlbum(100, ids)
    \/ \E t \in tasks, res \in {"ok", "absent", "fail"}, k \in 0..MaxOut :
          AlbumSendReturn(t, res, k)
    \/ \E m \in EditedMessages : OnEditMessage(100, m)
    \/ \E t \in tasks, res \in {"ok", "fail"} : EditReturn(t, res)
    \/ \E ids \in DeletedIds : OnDeletedMessage(100, ids)
    \/ \E t \in tasks, res \in {"ok", "fail"} : DeleteReturn(t, res)

SpecConfig == InitConfig /\ [][NextMapped]_vars

\* ------------------------------------------- failing filter and store calls
\* Lines 29-34 and 47-48: the router lookup or the filter raises inside the
\* try block; nothing was sent.
NewMessageStartFault(chat, m) ==
    /\ Cardinality(tasks) < MaxEvents
    /\ ~m.grouped_id /\ FirstEventFor(chat, m.id)
    /\ tasks' = tasks \cup {Finish(Task("new", chat, <<m>>, <<>>), "except")}
    /\ UNCHANGED <<db, next_id, config>>

\* Lines 42-48: the send returned a message and self._database.insert raises.
NewMessageInsertFault(t) ==
    /\ t.kind = "new" /\ t.pc = "send_message"
    /\ tasks' = (tasks \ {t}) \cup
                   {Finish([t EXCEPT !.hist = Returned(@, "ok", <<next_id>>)], "except")}
    /\ next_id' = next_id + 1
    /\ UNCHANGED <<db, config>>

\* Lines 59-73 and 85-86: the router lookup or the filter raises.
AlbumStartFault(chat, ids) ==
    /\ Cardinality(tasks) < MaxEvents
    /\ \A x \in 1..Len(ids) : OnlyGroupedFor(chat, ids[x])
    /\ tasks' = tasks \cup
          {Finish(Task("album", chat,
                       [x \in 1..Len(ids) |-> Message(ids[x], "hi", "photo", TRUE, FALSE)],
                       <<>>), "except")}
    /\ UNCHANGED <<db, next_id, config>>

\* Lines 79-86: send_file returned k > 1 messages and the insert of row
\* number f raises; the rows before it are in the store.
AlbumInsertFault(t, k, f) ==
    /\ t.kind = "album" /\ t.pc = "send_file"
    /\ k > 1 /\ f \in 1..Len(AlbumRows(t, k))
    /\ LET rows == SubSeq(AlbumRows(t, k), 1, f - 1)
           out == [x \in 1..k |-> next_id + x - 1]
       IN  /\ tasks' = (tasks \ {t}) \cup
                  {Finish([t EXCEPT !.hist = Returned(@, "ok", out), !.ins = @ \o rows],
                          "except")}
           /\ db' = InsertAll(db, rows)
    /\ next_id' = next_id + k
    /\ UNCHANGED config

\* Lines 102-109 and 112-113: get_messages or the filter raises.
EditStartFault(chat, m) ==
    /\ Cardinality(tasks) < MaxEvents
    /\ ~config.disable_edit /\ ~m.edit_hide
    /\ \A t \in tasks : ~(t.kind = "edit" /\ t.chat = chat /\ t.msgs = <<m>>)
    /\ tasks' = tasks \cup
          {Finish([Task("edit", chat, <<m>>, <<>>) EXCEPT
                      !.after_delete = DeleteProcessed(chat, m.id)], "except")}
    /\ UNCHANGED <<db, next_id, config>>

\* Lines 126-132 and 140-141: a store call of the first deleted id raises;
\* the outer except ends the handler.
DeleteStartFault(chat, ids) ==
    /\ Cardinality(tasks) < MaxEvents
    /\ ~config.disable_delete
    /\ \A t \in tasks : ~(t.kind = "delete" /\ t.chat = chat /\ t.deleted_ids = ids)
    /\ tasks' = tasks \cup {Finish([Task("delete", chat, <<>>, ids) EXCEPT !.j = 1], "except")}
    /\ UNCHANGED <<db, next_id, config>>

\* Lines 126-141: the last relay delete of one id returned, and a store call
\* of the next deleted id raises.
DeleteNextFault(t, res) ==
    /\ t.kind = "delete" /\ t.pc = "delete_messages"
    /\ t.i = Len(t.rows) /\ t.j < Len(t.deleted_ids)
    /\ tasks' = (tasks \ {t}) \cup
                   {Finish([t EXCEPT !.hist = Returned(@, res, <<>>), !.j = @ + 1], "except")}
    /\ UNCHANGED <<db, next_id, config>>

NextFaults ==
    \/ NextMapped
    \/ \E m \in NewMessages : NewMessageStartFault(100, m)
    \/ \E t \in tasks : NewMessageInsertFault(t)
    \/ \E ids \in Albums : AlbumStartFault(100, ids)
    \/ \E t \in tasks, k \in 2..MaxOut, f \in 1..MaxOut : AlbumInsertFault(t, k, f)
    \/ \E m \in EditedMessages : EditStartFault(100, m)
    \/ \E ids \in DeletedIds : DeleteStartFault(100, ids)
    \/ \E t \in tasks, res \in {"ok", "fail"} : DeleteNextFault(t, res)

SpecFaults == Init /\ [][NextFaults]_vars

\* ==================================================================== claims
InStore(row) == \E x \in 1..Len(db) : db[x] = row

NoDeleteFor(chat, id) == \A d \in tasks : ~(d.kind = "delete" /\ Refers(d, chat, id))

Min(a, b) == IF a < b THEN a ELSE b

\* C1: in the new-message handler every target of the router list receives a
\* send attempt, whichever earlier sends failed: a handler that has ended for
\* a plain message of a mapped chat has issued one send per target.
C1_EveryTargetGetsSend ==
    \A t \in tasks :
        (t.kind = "new" /\ t.pc = "done" /\ ~t.msgs[1].grouped_id /\ HasTargets(t.chat))
            => Len(t.hist) = Len(outgoing_chats(t.chat))

\* C2: in the edit handler every mirror row the lookup returned receives an
\* edit attempt, whichever earlier edit calls failed.
C2_EveryRowGetsEdit ==
    \A t \in tasks :
        (t.kind = "edit" /\ t.pc = "done") => Len(t.hist) = Len(t.rows)

\* C3: in the album handler a failure for one target (the grouped send
\* raising, or an error while its rows are inserted) does not prevent the
\* grouped send to a later target: an ended handler has issued one grouped
\* send per target.
C3_EveryTargetGetsSendFile ==
    \A t \in tasks :
        (t.kind = "album" /\ t.pc = "done" /\ HasTargets(t.chat))
            => Len(t.hist) = Len(outgoing_chats(t.chat))

\* C4: an edit event that starts after a delete handler has processed
\* (original id, chat) finds no mirror rows and issues no edit call, under
\* every interleaving of the handlers.
C4_EditAfterDeleteIsNoOp ==
    \A t \in tasks :
        (t.kind = "edit" /\ t.after_delete) => (t.rows = <<>> /\ t.hist = <<>>)

\* C5: whenever a relay delete call of the delete handler is in flight, none
\* of the rows its lookup returned for that original id is in the store: the
\* store rows are removed before the first downstream delete is attempted.
C5_StoreClearedBeforeRelayDelete ==
    \A t \in tasks :
        (t.kind = "delete" /\ t.pc = "delete_messages")
            => /\ Len(t.rows) >= 1
               /\ \A k \in 1..Len(t.rows) : ~InStore(t.rows[k])

\* A second relay delete is in flight after the first one failed.
C5_Witness ==
    \E t \in tasks :
        /\ t.kind = "delete" /\ t.pc = "delete_messages"
        /\ Len(t.rows) = 2 /\ t.i = 2 /\ t.hist[1].res = "fail"

\* C6: when the delete handler has ended, every id of the batch was looked
\* up, every mirror row found received exactly one delete attempt (failed
\* attempts included) and none of the rows found is left in the store.
C6_DeleteAttemptsAll ==
    \A t \in tasks :
        (t.kind = "delete" /\ t.pc = "done")
            => /\ t.j = Len(t.deleted_ids) + 1
               /\ Len(t.hist) = Len(t.found)
               /\ \A k \in 1..Len(t.found) :
                     /\ t.hist[k].op = "delete_messages"
                     /\ t.hist[k].chat = t.found[k].mirror_channel
                     /\ t.hist[k].id = t.found[k].mirror_id
                     /\ \A l \in 1..Len(t.found) :
                           (t.found[l].mirror_channel = t.found[k].mirror_channel
                            /\ t.found[l].mirror_id = t.found[k].mirror_id) => l = k
                     /\ ~InStore(t.found[k])

\* A batch of two ids with rows has ended although its first delete failed.
C6_Witness ==
    \E t \in tasks :
        /\ t.kind = "delete" /\ t.pc = "done" /\ Len(t.found) >= 3
        /\ t.hist[1].res = "fail"
        /\ t.found[1].original_id # t.found[Len(t.found)].original_id

\* The rows one new-message handler owes: one per send that returned a message.
RECURSIVE RowsOfSends(_, _)
RowsOfSends(t, hist) ==
    IF hist = <<>> THEN <<>>
    ELSE (IF Head(hist).res = "ok"
          THEN <<MirrorMessage(t.msgs[1].id, t.chat, Head(hist).out[1], Head(hist).chat)>>
          ELSE <<>>) \o RowsOfSends(t, Tail(hist))

\* C7: a new-message handler inserts exactly one row (original id, source
\* chat, outgoing id, target chat) for each target whose send returned a
\* message and none for a target whose send failed or returned nothing; with
\* no delete event for the message these are the rows the store holds for it.
C7_OneRowPerReturnedSend ==
    \A t \in tasks :
        (t.kind = "new" /\ ~t.msgs[1].grouped_id)
            => /\ t.ins = RowsOfSends(t, t.hist)
               /\ \A k \in 1..Len(t.hist) : t.hist[k].chat = mirror_mapping[t.chat][k]
               /\ NoDeleteFor(t.chat, t.msgs[1].id)
                     => get_messages(db, t.msgs[1].id, t.chat) = t.ins

\* Message 5 of chat 100: the send to 200 returned id 50, the send to 300
\* failed, and the store holds the one row (5, 100, 50, 200).
C7_Witness ==
    \E t \in tasks :
        /\ t.kind = "new" /\ t.pc = "done" /\ t.chat = 100
        /\ Len(t.hist) = 2 /\ t.hist[1].res = "ok" /\ t.hist[2].res = "fail"
        /\ db = <<MirrorMessage(5, 100, 50, 200)>>

\* The rows one album handler owes: for each grouped send that returned K >= 2
\* messages, min(N, K) rows pairing source ids and outgoing ids by position.
RECURSIVE RowsOfAlbumSends(_, _)
RowsOfAlbumSends(t, hist) ==
    IF hist = <<>> THEN <<>>
    ELSE LET c == Head(hist)
             n == Min(Len(t.msgs), Len(c.out))
         IN  (IF c.res = "ok" /\ Len(c.out) >= 2
              THEN [x \in 1..n |-> MirrorMessage(t.msgs[x].id, t.chat, c.out[x], c.chat)]
              ELSE <<>>) \o RowsOfAlbumSends(t, Tail(hist))

\* C8: for an album of N messages the handler inserts, for each target whose
\* grouped send returned K >= 2 messages, exactly min(N, K) rows, the i-th
\* pairing the i-th source id with the i-th outgoing id, and no row for a
\* target that returned 0 or 1 message or nothing.
C8_AlbumRowsByPosition ==
    \A t \in tasks :
        t.kind = "album"
            => /\ t.ins = RowsOfAlbumSends(t, t.hist)
               /\ \A x \in 1..Len(t.msgs) :
                     NoDeleteFor(t.chat, t.msgs[x].id)
                        => get_messages(db, t.msgs[x].id, t.chat)
                              = SelectRows(t.ins, t.msgs[x].id, t.chat)

\* An album of 2: one target returned a single message (no row), the other
\* returned 3 (2 rows).
C8_Witness ==
    \E t \in tasks :
        /\ t.kind = "album" /\ Len(t.msgs) = 2 /\ Len(t.hist) = 2
        /\ t.hist[1].res = "ok" /\ Len(t.hist[1].out) = 1
        /\ t.hist[2].res = "ok" /\ Len(t.hist[2].out) = 3
        /\ Len(t.ins) = 2 /\ Len(db) = 2

\* C9: a NewMessage or Album event of a source chat that is absent from the
\* mapping, or mapped to an empty list, makes no relay call and no store
\* write.
C9_NoTargetsNoEffect ==
    /\ \A t \in tasks :
          (t.kind \in {"new", "album"}
           /\ (t.chat \notin DOMAIN mirror_mapping \/ mirror_mapping[t.chat] = <<>>))
              => (t.pc = "done" /\ t.hist = <<>> /\ t.ins = <<>>)
    /\ \A x \in 1..Len(db) :
          /\ db[x].original_channel \in DOMAIN mirror_mapping
          /\ mirror_mapping[db[x].original_channel] # <<>>

\* A plain message of the unmapped chat, an album of the chat mapped to an
\* empty list and a mirrored message of chat 100 have all been handled.
C9_Witness ==
    /\ \E t \in tasks : t.kind = "new" /\ ~t.msgs[1].grouped_id
                        /\ t.chat \notin DOMAIN mirror_mapping
    /\ \E t \in tasks : t.kind = "album" /\ t.chat \in DOMAIN mirror_mapping
                        /\ mirror_mapping[t.chat] = <<>>
    /\ Len(db) >= 1

\* C10: an edit handler writes nothing to the store, and two edit events of
\* the same original message that looked up the same mirror rows have each
\* issued an edit call for every one of them, whether the calls succeeded or
\* failed.
C10_EditsReissueAll ==
    \A t \in tasks : \A u \in tasks :
        (/\ t.kind = "edit" /\ u.kind = "edit" /\ t # u
         /\ t.pc = "done" /\ u.pc = "done"
         /\ t.chat = u.chat /\ t.msgs[1].id = u.msgs[1].id
         /\ t.rows # <<>> /\ t.rows = u.rows)
            => /\ t.ins = <<>> /\ u.ins = <<>>
               /\ Len(t.hist) = Len(t.rows)
               /\ Len(u.hist) = Len(u.rows)

\* The relay sends (task, position) to target chat c that carry message id of
\* source chat `chat`.
SendsCarrying(chat, id, c) ==
    UNION {{<<u, k>> : k \in {k \in 1..Len(u.hist) :
                                /\ u.hist[k].op \in {"send_message", "send_poll", "send_file"}
                                /\ u.hist[k].chat = c
                                /\ \E x \in 1..Len(u.hist[k].content) :
                                      u.hist[k].content[x].id = id}}
           : u \in {u \in tasks : u.chat = chat}}

\* C14: a NewMessage event of a grouped message makes no relay call and no
\* store write; when both it and the Album event are delivered, each target
\* gets the grouped content in one send at most, the album handler's grouped
\* send, and the store holds at most one row per (original id, target).
C14_GroupedNewMessageSkipped ==
    \A t \in tasks :
        Grouped(t)
            => /\ t.pc = "done" /\ t.hist = <<>> /\ t.ins = <<>>
               /\ \A c \in {200, 300} :
                     /\ Cardinality(SendsCarrying(t.chat, t.msgs[1].id, c)) <= 1
                     /\ \A p \in SendsCarrying(t.chat, t.msgs[1].id, c) :
                           p[1].kind = "album" /\ p[1].hist[p[2]].op = "send_file"
               /\ \A x \in 1..Len(db) : \A y \in 1..Len(db) :
                     (/\ db[x].original_id = t.msgs[1].id
                      /\ db[x].original_channel = t.chat
                      /\ db[y].original_id = db[x].original_id
                      /\ db[y].original_channel = db[x].original_channel
                      /\ db[y].mirror_channel = db[x].mirror_channel) => x = y

\* The grouped NewMessage of message 5 and the Album event were both
\* delivered; the album went to both targets with two rows each.
C14_Witness ==
    /\ \E t \in tasks : Grouped(t) /\ t.chat = 100 /\ t.msgs[1].id = 5
    /\ \E t \in tasks : t.kind = "album" /\ t.chat = 100 /\ t.pc = "done"
                        /\ Len(t.ins) = 4
    /\ Len(db) = 4

\* C16: within one new-message or album handler the sends go to the targets
\* in the order of the router list, and the send to the next target is issued
\* only after the send before it has returned and its rows were inserted:
\* only the last send can be pending.  Handlers of different events are not
\* ordered against each other.
C16_SendsInRouterOrder ==
    \A t \in tasks :
        t.kind \in {"new", "album"}
            => /\ Len(t.hist) <= Len(outgoing_chats(t.chat))
               /\ \A k \in 1..Len(t.hist) :
                     /\ t.hist[k].chat = outgoing_chats(t.chat)[k]
                     /\ k < Len(t.hist) =>
                           /\ t.hist[k].res \in {"ok", "absent"}
                           /\ (t.kind = "new" /\ t.hist[k].res = "ok") =>
                                 \E x \in 1..Len(t.ins) :
                                     /\ t.ins[x].mirror_id = t.hist[k].out[1]
                                     /\ t.ins[x].mirror_channel = t.hist[k].chat
                           /\ (t.kind = "album" /\ Len(t.hist[k].out) >= 2) =>
                                 \E x \in 1..Len(t.ins) :
                                     /\ t.ins[x].mirror_id = t.hist[k].out[1]
                                     /\ t.ins[x].mirror_channel = t.hist[k].chat
               /\ (t.pc # "done") => t.hist[Len(t.hist)].res = "pending"

\* Two handlers are suspended at once: message 6 waits for its first target
\* while message 5, started earlier, already waits for its second.
C16_Witness ==
    \E t \in tasks : \E u \in tasks :
        /\ t.kind = "new" /\ u.kind = "new"
        /\ t.msgs[1].id = 5 /\ u.msgs[1].id = 6
        /\ t.pc = "send_message" /\ u.pc = "send_message"
        /\ t.i = 2 /\ u.i = 1 /\ t.hist[1].res = "ok"
        /\ t.hist[1].out[1] < next_id

\* Row r was removed from the store by a delete handler.
RemovedByDelete(r) ==
    \E d \in tasks : d.kind = "delete" /\ \E k \in 1..Len(d.found) : d.found[k] = r

\* C17 as claimed: no relay edit call is issued against a mirror row that is
\* no longer in the store, also by an edit handler that was suspended
\* between two edit calls while a delete handler removed the rows.
C17_NoEditOfRemovedRow ==
    [][\A t \in tasks' :
          (t \notin tasks /\ t.kind = "edit" /\ t.pc = "edit_message")
              => InStore(t.rows[t.i])]_vars

\* C17 as amended: every relay edit call of an edit handler goes to a mirror
\* row of its own (original id, chat) that some handler inserted and that
\* its lookup returned; such a row is either still in the store or was
\* removed by a delete handler after that lookup.
C17_EditsUseLookedUpRows ==
    \A t \in tasks :
        t.kind = "edit"
            => /\ Len(t.hist) <= Len(t.found)
               /\ \A k \in 1..Len(t.hist) :
                     /\ t.hist[k].op = "edit_message"
                     /\ t.hist[k].chat = t.found[k].mirror_channel
                     /\ t.hist[k].id = t.found[k].mirror_id
                     /\ t.found[k].original_id = t.msgs[1].id
                     /\ t.found[k].original_channel = t.chat
                     /\ \E u \in tasks : \E x \in 1..Len(u.ins) : u.ins[x] = t.found[k]
                     /\ InStore(t.found[k]) \/ RemovedByDelete(t.found[k])

\* An edit handler issued its second edit call against a row that a delete
\* handler had removed while the first edit call was in flight.
C17_Witness ==
    \E t \in tasks :
        /\ t.kind = "edit" /\ t.pc = "edit_message" /\ t.i = 2
        /\ ~InStore(t.rows[2]) /\ RemovedByDelete(t.rows[2])
        /\ ~t.after_delete

\* C18: once every handler has ended, for a message whose NewMessage or
\* Album event and whose MessageDeleted event were both handled the store
\* holds no row of (original id, chat), and every mirror copy recorded for
\* it has received a relay delete call.
C18_DeletedOriginalLeavesNoRow ==
    (\A t \in tasks : t.pc = "done")
        => \A t \in tasks : \A d \in tasks :
              (/\ t.kind \in {"new", "album"} /\ ~Grouped(t)
               /\ d.kind = "delete" /\ d.chat = t.chat)
                  => \A x \in 1..Len(t.msgs) :
                        t.msgs[x].id \in IdsOf(d)
                            => /\ get_messages(db, t.msgs[x].id, t.chat) = <<>>
                               /\ \A y \in 1..Len(t.ins) :
                                     t.ins[y].original_id = t.msgs[x].id
                                         => RemovedByDelete(t.ins[y])

\* The relay delete calls (task, position) against mirror message (c, id).
DeleteCallsOn(c, id) ==
    UNION {{<<d, k>> : k \in {k \in 1..Len(d.hist) :
                                /\ d.hist[k].op = "delete_messages"
                                /\ d.hist[k].chat = c /\ d.hist[k].id = id}}
           : d \in tasks}

\* C19: whatever the interleaving of the delete handlers, two events naming
\* the same original id included, every mirror row that was stored receives
\* at most one relay delete call.
C19_AtMostOneDeletePerRow ==
    \A t \in tasks : \A x \in 1..Len(t.ins) :
        Cardinality(DeleteCallsOn(t.ins[x].mirror_channel, t.ins[x].mirror_id)) <= 1

\* Two delete events naming message 5 have ended; the rows of 5 went to one
\* of them, two relay delete calls in all.
C19_Witness ==
    /\ \E d \in tasks : \E e \in tasks :
          /\ d.kind = "delete" /\ e.kind = "delete" /\ d # e
          /\ d.chat = 100 /\ e.chat = 100 /\ d.pc = "done" /\ e.pc = "done"
          /\ Len(d.found) + Len(e.found) = 2
    /\ \E t \in tasks : t.kind = "new" /\ t.msgs[1].id = 5 /\ Len(t.ins) = 2

\* C20: every row of the store names a mirror message that a relay send of
\* the handler of that original returned in that target chat, and no relay
\* delete call has been issued for it.
C20_RowsAreLiveMirrors ==
    \A r \in 1..Len(db) :
        /\ \E t \in tasks : \E k \in 1..Len(t.hist) :
              /\ t.kind \in {"new", "album"} /\ t.chat = db[r].original_channel
              /\ t.hist[k].res = "ok" /\ t.hist[k].chat = db[r].mirror_channel
              /\ \E x \in 1..Min(Len(t.msgs), Len(t.hist[k].out)) :
                    /\ t.msgs[x].id = db[r].original_id
                    /\ t.hist[k].out[x] = db[r].mirror_id
        /\ DeleteCallsOn(db[r].mirror_channel, db[r].mirror_id) = {}

\* The album's rows of message 6 are in the store while the rows of message
\* 5 were removed and a relay delete for one of them is in flight.
C20_Witness ==
    /\ Len(db) = 2
    /\ \A r \in 1..Len(db) : db[r].original_id = 6
    /\ \E d \in tasks : d.kind = "delete" /\ d.pc = "delete_messages" /\ Len(d.found) = 2

\* C12: the content the new-message handler hands to the generic send is the
\* Content Filter's output for the incoming message, for every target and
\* every filter.
C12_GenericSendCarriesFiltered ==
    \A t \in tasks :
        t.kind = "new"
            => \A k \in 1..Len(t.hist) :
                  t.hist[k].op = "send_message"
                      => t.hist[k].content = <<process(t.msgs[1])>>

\* C13: a new message whose filtered payload is a poll goes to every target
\* through the poll-specific send, carrying the filtered poll; a message
\* whose filtered payload is not a poll never goes through it.
C13_PollPathIffFilteredPoll ==
    \A t \in tasks :
        t.kind = "new"
            => \A k \in 1..Len(t.hist) :
                  IF process(t.msgs[1]).media = "poll"
                  THEN /\ t.hist[k].op = "send_poll"
                       /\ t.hist[k].content = <<process(t.msgs[1])>>
                  ELSE t.hist[k].op = "send_message"

\* Poll 6 went to both targets through the poll-specific send while text 5
\* went through the generic send.
C13_Witness ==
    /\ \E t \in tasks :
          /\ t.kind = "new" /\ t.msgs[1].media = "poll" /\ Len(t.hist) = 2
          /\ t.hist[1].op = "send_poll" /\ t.hist[2].op = "send_poll"
    /\ \E t \in tasks :
          /\ t.kind = "new" /\ t.msgs[1].media = "text"
          /\ Len(t.hist) >= 1 /\ t.hist[1].op = "send_message"

\* Some relay call with operation op was issued.
SomeCall(op) == \E t \in tasks : \E k \in 1..Len(t.hist) : t.hist[k].op = op

\* C15: with edit propagation disabled no edit handler runs and no relay
\* edit call is issued; with delete propagation disabled no delete handler
\* runs, no relay delete call is issued and no inserted row leaves the store.
\* Each flag decides its own handler only, and the new-message and album
\* handlers are installed whatever the flags.
C15_FlagsDisableHandlers ==
    /\ config.disable_edit =>
          /\ \A t \in tasks : t.kind # "edit"
          /\ ~SomeCall("edit_message")
    /\ config.disable_delete =>
          /\ \A t \in tasks : t.kind # "delete"
          /\ ~SomeCall("delete_messages")
          /\ \A t \in tasks : \A x \in 1..Len(t.ins) : InStore(t.ins[x])
    /\ tasks = {} =>
          /\ ENABLED OnNewMessage(100, Message(5, "hi", "text", FALSE, FALSE))
          /\ ENABLED OnAlbum(100, <<5, 6>>)
          /\ (ENABLED OnEditMessage(100, Message(5, "edited", "text", FALSE, FALSE)))
                <=> ~config.disable_edit
          /\ (ENABLED OnDeletedMessage(100, <<5>>)) <=> ~config.disable_delete

\* Edit propagation is disabled, delete propagation is not: a mirrored
\* message was deleted, its rows removed and a relay delete issued.
C15_Witness ==
    /\ config.disable_edit /\ ~config.disable_delete
    /\ \E t \in tasks : t.kind = "new" /\ Len(t.ins) = 2
    /\ \E d \in tasks : d.kind = "delete" /\ Len(d.found) = 2 /\ Len(d.hist) >= 1
    /\ db = <<>>

\* A call of handler t failed: a relay call raised, or the handler ended in
\* its except clause.
Failed(t) ==
    \/ t.exit = "except"
    \/ \E k \in 1..Len(t.hist) : t.hist[k].res = "fail"

\* C11: whatever router lookup, filter call, relay call or store call fails
\* inside a handler, the handler ends by returning and nothing is raised to
\* the event source: a failure outside the delete handler's inner try ends
\* the handler in its except clause, and a handler is either ended or
\* suspended in exactly one pending relay call.
C11_HandlersNeverRaise ==
    \A t \in tasks :
        /\ t.exit \in {"return", "skip", "no_targets", "no_rows", "except"}
        /\ t.exit = "except" => t.pc = "done"
        /\ (t.kind # "delete" /\ Failed(t)) => (t.pc = "done" /\ t.exit = "except")
        /\ (t.pc # "done") =>
              /\ t.hist # <<>> /\ t.hist[Len(t.hist)].res = "pending"
        /\ \A k \in 1..Len(t.hist) : (t.hist[k].res = "pending") => (k = Len(t.hist) /\ t.pc # "done")

\* A MessageDeleted event for message 5 ended in its except clause on a
\* failing store call; an edit event delivered after it was handled and has
\* issued its edit call against the rows the failed delete left.
C11_Witness ==
    /\ \E d \in tasks : d.kind = "delete" /\ d.exit = "except" /\ d.hist = <<>>
                        /\ 5 \in IdsOf(d)
    /\ \E t \in tasks : t.kind = "edit" /\ t.msgs[1].id = 5 /\ t.after_delete
                        /\ Len(t.hist) >= 1

====
